---- MODULE Spec2Model ----
(***************************************************************************)
(* The asynchronous job manager of vimini (python3/vimini/util.py):        *)
(* start_async_job / _job_worker / process_queue over the module globals   *)
(* _JOB_QUEUE, _JOB_COUNTER, _ACTIVE_JOBS, _JOB_NAMES and _JOB_CLIENTS.     *)
(* The control thread (the editor's event loop) runs reserve_next_job_id,  *)
(* start_async_job, continue_async_job and process_queue; every            *)
(* start_async_job spawns one worker thread, which only pushes messages.   *)
(* Worker steps interleave with the iterations of process_queue's loop.    *)
(***************************************************************************)
EXTENDS Integers, Sequences, FiniteSets, TLC

\* ------------------------------------------------------------------ bounds
\* Highest value _JOB_COUNTER may reach in a run.
MaxJobs == 2
\* Number of worker threads (start_async_job calls) in a run.
MaxWorkers == 2
\* Number of response chunks one worker's producer yields in total.
MaxChunks == 1
\* Number of streams (chat turns) the step function of the chat session
\* returns in a run.
MaxStreams == 2

\* Number of calls of step functions the specification SpecStep follows.
MaxCalls == 4

\* Number of chat() calls with a prompt in the specification SpecSession.
MaxPrompts == 3

\* Number of autocomplete() calls in the specification SpecAutocomplete.
MaxCompletions == 3

\* Number of parts of a response chunk and of chunks of a response stream in
\* the specification SpecStream.
MaxParts == 2
MaxLen == 2

\* -------------------------------------------------------------- vocabulary
None == "None"

Hooks == {"on_chunk", "on_thought", "on_error", "on_finish"}


\* A callback record: the keys present in the dict, the hooks that raise
\* when called and the hooks that return a value (properties of the caller's
\* closures), and reg, the identity of the dict object (the start_async_job
\* call that supplied it).
Callbacks(keys, raises) ==
    [keys |-> keys, raises |-> raises, returns |-> {}, reg |-> 0]

\* The records of the callers: code.py passes the four hooks, ripgrep.py and
\* chat.py pass on_chunk, on_error, on_finish and status_message (here with
\* closures that raise), and a caller may pass an empty dict.
AllHooks     == Callbacks(Hooks, {})
RaisingHooks == Callbacks({"on_chunk", "on_error", "on_finish",
                           "status_message"}, {"on_chunk", "on_error"})
EmptyDict    == Callbacks({}, {})

\* The record of chat.py: on_chunk, on_error, on_finish and status_message;
\* its on_error returns the text "Chat Error: <msg>".
ChatHooks ==
    [Callbacks({"on_chunk", "on_error", "on_finish", "status_message"}, {})
        EXCEPT !.returns = {"on_error"}]

CallbackSet == {AllHooks, RaisingHooks, EmptyDict}

\* A part of a response chunk, as _handle_response_stream reads it.
Part(sig, hasText, thought, malformed) ==
    [thought_signature |-> sig, has_text |-> hasText, thought |-> thought,
     malformed |-> malformed]

TextPart    == Part(FALSE, TRUE, FALSE, FALSE)
ThoughtPart == Part(FALSE, TRUE, TRUE, FALSE)

\* A response chunk: candidates is "absent" (no such attribute), "empty" or
\* "present"; parts are candidates[0].content.parts (<<>> when content is
\* missing); text is "absent", "empty" or "present" (chunk.text).
Chunk(candidates, parts, text) ==
    [candidates |-> candidates, parts |-> parts, text |-> text]

\* The chunks the producers of the main specification yield.
StreamChunks ==
    { Chunk("present", <<ThoughtPart, TextPart>>, "absent"),
      Chunk("present", <<TextPart>>, "absent") }

\* The text of part k of the n-th chunk of a producer, yielded by its r-th
\* stream (r is 0 in simple mode, the counter of the step function in step
\* mode): every fragment of one producer carries a different text.
Text(r, n, k) ==
    "r" \o ToString(r) \o "." \o ToString(n) \o "." \o ToString(k)

\* The host's timer after ViminiInternalStartJobTimer and after
\* ViminiInternalStopJobTimer; while it runs it calls process_queue.
StartJobTimer == "running"
StopJobTimer == "stopped"

\* process_queue's status_update is None or a pair (text, error).
NoStatus == <<>>

VARIABLES
    JOB_QUEUE,      \* _JOB_QUEUE: messages in flight, oldest first
    JOB_COUNTER,    \* _JOB_COUNTER
    ACTIVE_JOBS,    \* _ACTIVE_JOBS: job id -> callback record
    JOB_NAMES,      \* _JOB_NAMES: job id -> name
    JOB_CLIENTS,    \* _JOB_CLIENTS: job id -> client
    GENAI_CLIENT,   \* what get_client() returns: the global client or None
    workers,        \* the worker threads, in order of creation
    ctl,            \* control thread: "idle", or "polling" inside process_queue
    status_update,  \* process_queue's local status_update
    timer,          \* the host's polling timer: "stopped" or "running"
    shown,          \* the last argument of display_message in process_queue
    reserved,       \* history: the ids reserve_next_job_id returned, in order
    returned,       \* history: what each start_async_job call returned
    poll,           \* history, kept by the specification SpecDrain only:
                    \* of the running or last process_queue call, how many
                    \* messages the queue held when it began, how many it
                    \* took, and how it ended
    pushed,         \* history: per worker, the messages it put on the queue
    delivered,      \* history: per worker, what process_queue did with each
                    \* of its messages, in the order it took them
    chat_session,   \* chat.py: the global dict chat_session
    asked,          \* history: the prompts passed to chat(), in order
    sent,           \* history: the prompts passed to send_message_stream
    calls,          \* history, kept by the specification SpecStep only: the
                    \* calls of the step function and what they returned
    current_autocomplete_job_id,  \* autocomplete.py, 0 for None
    autocomplete_queue,           \* autocomplete.py: _autocomplete_queue
    autocomplete_workers,         \* the threads autocomplete() started
    response_stream,  \* the response stream handed to _handle_response_stream
    stream_pos        \* the number of its chunks the for loop has consumed

vars == <<JOB_QUEUE, JOB_COUNTER, ACTIVE_JOBS, JOB_NAMES, JOB_CLIENTS,
          GENAI_CLIENT, workers, ctl, status_update, timer, shown,
          reserved, returned, poll, pushed, delivered,
          chat_session, asked, sent, calls,
          current_autocomplete_job_id, autocomplete_queue,
          autocomplete_workers, response_stream, stream_pos>>

registry == <<JOB_COUNTER, ACTIVE_JOBS, JOB_NAMES, JOB_CLIENTS>>
histories == <<reserved, returned, pushed, delivered>>
pollState == <<ctl, status_update, timer, shown>>

\* The state of chat.py and the histories of its prompts and of the calls of
\* step functions: the actions of the job manager are written without them,
\* and each specification says what its steps do to them.
session == <<chat_session, asked, sent, calls>>

\* The state of autocomplete.py, which has its own lock, queue and threads,
\* and a response stream taken alone; the job manager never touches them.
autocompleteVars == <<current_autocomplete_job_id, autocomplete_queue,
                      autocomplete_workers>>
streamVars == <<response_stream, stream_pos>>
apart == <<autocompleteVars, streamVars>>

\* chat.py, lines 19-26: the dict chat() builds on its first call. prompt is
\* the number of the chat() call that wrote it (0: the empty string),
\* session is None or the chat session object.
ChatSessionInit ==
    [prompt |-> 0, session |-> None, counter |-> 0, running |-> FALSE]

\* The module globals after import, but for the client and the response
\* stream.
InitGlobals ==
    /\ chat_session = ChatSessionInit
    /\ asked = <<>>
    /\ sent = <<>>
    /\ calls = <<>>
    /\ current_autocomplete_job_id = 0
    /\ autocomplete_queue = <<>>
    /\ autocomplete_workers = <<>>
    /\ stream_pos = 0
    /\ JOB_QUEUE = <<>>
    /\ JOB_COUNTER = 0
    /\ ACTIVE_JOBS = <<>>
    /\ JOB_NAMES = <<>>
    /\ JOB_CLIENTS = <<>>
    /\ workers = <<>>
    /\ ctl = "idle"
    /\ status_update = NoStatus
    /\ timer = StopJobTimer
    /\ shown = NoStatus
    /\ reserved = <<>>
    /\ returned = <<>>
    /\ poll = [began |-> 0, taken |-> 0, exit |-> "none"]
    /\ pushed = <<>>
    /\ delivered = <<>>

\* A configured client (get_client() returns it) and no stream taken alone.
Init ==
    /\ InitGlobals
    /\ GENAI_CLIENT = "default"
    /\ response_stream = <<>>

\* ------------------------------------------------------------ dict helpers
\* An assignment that forgets the other keys of the dict.
DictOnly(d, k, v) == [x \in {k} |-> v]

\* d[k] = v on a dict.
DictSet(d, k, v) == [x \in DOMAIN d \cup {k} |-> IF x = k THEN v ELSE d[x]]

\* del d[k] guarded by "if k in d".
DictDel(d, k) == [x \in DOMAIN d \ {k} |-> d[x]]

\* d.get(k), with what stands for Python's None as default
DictGet(d, k, default) == IF k \in DOMAIN d THEN d[k] ELSE default

\* What _ACTIVE_JOBS.get(job_id) returns for an absent id (Python's None).
NoCallbacks == [keys |-> {}, raises |-> {}, returns |-> {}, reg |-> -1]

\* Truthiness of what _ACTIVE_JOBS.get returns: None and an empty dict are
\* both falsy.
CallbacksTruthy(cb) == cb.keys # {}

\* ------------------------------------------------------------- the queue
Message(job_id, msg_type, data, w) ==
    [job_id |-> job_id, msg_type |-> msg_type, data |-> data, w |-> w]

\* _JOB_QUEUE.put(item)
QueuePut(q, m) == Append(q, m)

\* A queue that hands out the newest item first.
QueueGetNewest(q) == <<q[Len(q)], SubSeq(q, 1, Len(q) - 1)>>

\* _JOB_QUEUE.get_nowait() on a non-empty queue: <<item, rest>>
QueueGet(q) == <<Head(q), Tail(q)>>

\* ------------------------------------------- _handle_response_stream
\* The messages the parts of one chunk produce, from part k on: a part with
\* a thought signature or without text is skipped, a part whose attributes
\* cannot be read raises and the except clause drops the rest of the chunk.
RECURSIVE PartMessages(_, _, _, _)
PartMessages(parts, r, n, k) ==
    IF k > Len(parts) THEN <<>>
    ELSE LET part == parts[k] IN
         IF part.malformed THEN <<>>
         ELSE IF part.thought_signature THEN PartMessages(parts, r, n, k + 1)
         ELSE IF ~part.has_text THEN PartMessages(parts, r, n, k + 1)
         ELSE <<[msg_type |-> IF part.thought THEN "thought" ELSE "chunk",
                 data |-> Text(r, n, k)]>>
              \o PartMessages(parts, r, n, k + 1)

\* The body of the for loop of _handle_response_stream for the n-th chunk,
\* yielded by stream r: the <<msg_type, data>> pairs it puts on the queue,
\* in order.
HandleChunk(chunk, r, n) ==
    IF chunk.candidates = "empty" THEN <<>>
    ELSE IF chunk.candidates = "present"
         THEN PartMessages(chunk.parts, r, n, 1)
    ELSE IF chunk.text # "absent"
         THEN <<[msg_type |-> "chunk",
                 data |-> IF chunk.text = "empty" THEN ""
                          ELSE Text(r, n, 0)]>>
    ELSE <<>>

\* ------------------------------------------------------- the worker thread
\* A worker as threading.Thread(target=_job_worker, args=(client, kwargs,
\* job_id, target_func)) creates it. mode is "step" when target_func is
\* given, "simple" otherwise. pc: "start" (before the call of the producer or
\* of the step function), "stream" (inside _handle_response_stream), "break"
\* (after the break of the step loop, before line 463), "done" (returned),
\* "crashed" (an exception left _job_worker). raised says whether the except
\* clause ran. kwargs is the request: it stands for the number of chunks
\* the model has to stream for it, over all the streams of the worker.
Worker(client, kwargs, job_id, mode) ==
    [client |-> client, kwargs |-> kwargs, job_id |-> job_id, mode |-> mode,
     pc |-> "start", count |-> 0, yielded |-> 0, pending |-> <<>>,
     raised |-> FALSE]

WorkerIds == DOMAIN workers

\* One _JOB_QUEUE.put by worker w, with its history.
Put(w, msg_type, data) ==
    /\ JOB_QUEUE' = QueuePut(JOB_QUEUE,
                             Message(workers[w].job_id, msg_type, data, w))
    /\ pushed' = [pushed EXCEPT
                    ![w] = Append(@, [msg_type |-> msg_type, data |-> data])]

\* A worker thread that clears the registry.
WorkerClearsJobs ==
    /\ ACTIVE_JOBS' = <<>>
    /\ UNCHANGED <<JOB_COUNTER, JOB_NAMES, JOB_CLIENTS, GENAI_CLIENT,
                   pollState, reserved, returned, poll, delivered, apart>>

\* What the code of the worker thread (_job_worker, _handle_response_stream)
\* leaves alone: everything but its own locals and _JOB_QUEUE.
WorkerFrame ==
    UNCHANGED <<registry, GENAI_CLIENT, pollState, reserved, returned,
                poll, delivered, apart>>

\* A worker without the except clause: the exception leaves the thread.
JobWorkerNoExcept(w) ==
    /\ workers' = [workers EXCEPT ![w].pc = "crashed", ![w].raised = TRUE]
    /\ UNCHANGED <<JOB_QUEUE, pushed>>

\* The except clause of _job_worker: the exception becomes one 'error'
\* message and the thread returns.
JobWorkerExcept(w) ==
    /\ Put(w, "error", "exc")
    /\ workers' = [workers EXCEPT ![w].pc = "done", ![w].raised = TRUE]

\* Simple mode, line 460: client.models.generate_content_stream(**kwargs).
\* With client None the attribute access raises; otherwise the call returns
\* a stream or raises.
WorkerGenerate(w) ==
    /\ workers[w].mode = "simple"
    /\ workers[w].pc = "start"
    /\ \/ /\ workers[w].client = None
          /\ JobWorkerExcept(w)
       \/ /\ workers[w].client # None
          /\ \/ JobWorkerExcept(w)
             \/ /\ workers' = [workers EXCEPT ![w].pc = "stream"]
                /\ UNCHANGED <<JOB_QUEUE, pushed>>
    /\ WorkerFrame

\* What a step function can return when called with count: (0, message),
\* (count, None) when nothing new arrived, or (count + 1, stream) for a new
\* request, as the step function of chat.py does; a counter of 0 with any
\* response is the (0, message) case.
StepReturns(count, kwargs) ==
    {[next_count |-> 0, response |-> "msg"]}
    \cup (IF count > 0 THEN {[next_count |-> count, response |-> None]}
          ELSE {})
    \cup (IF count < kwargs
          THEN {[next_count |-> count + 1, response |-> "stream"]} ELSE {})

\* A loop that goes on whatever counter the step function returns.
LoopNeverEnds(next_count) == FALSE

\* Line 452: the test that ends the loop of the step mode.
LoopEnds(next_count) == next_count = 0

\* Step mode, lines 452-457, after target_func(count, **kwargs) returned
\* ret: on counter 0 the worker puts 'error' and breaks, else it keeps the
\* counter and drains the stream if there is one.
TargetReturns(w, ret) ==
    IF LoopEnds(ret.next_count)
    THEN /\ Put(w, "error", ret.response)
         /\ workers' = [workers EXCEPT ![w].pc = "break"]
    ELSE /\ workers' = [workers EXCEPT
                ![w].count = ret.next_count,
                ![w].pc = IF ret.response # None THEN "stream" ELSE "start"]
         /\ UNCHANGED <<JOB_QUEUE, pushed>>

\* Step mode, lines 451-458: one call target_func(count, **kwargs), which
\* raises or returns.
WorkerTarget(w) ==
    /\ workers[w].mode = "step"
    /\ workers[w].pc = "start"
    /\ \/ JobWorkerExcept(w)
       \/ \E ret \in StepReturns(workers[w].count, workers[w].kwargs) :
            TargetReturns(w, ret)
    /\ WorkerFrame

\* A worker that finishes after every stream, in step mode too.
AfterStreamFinish(mode) == "done"

\* Where _job_worker goes when _handle_response_stream returns: in simple
\* mode to line 463 (it puts 'finish' and is done), in step mode back to the
\* start of the while loop (lines 457-458, 450).
AfterStream(mode) == IF mode = "simple" THEN "done" ELSE "start"

\* _handle_response_stream, one iteration of "for chunk in response_stream":
\* the stream yields its next chunk, ends, or raises. The first message of
\* the chunk is put at once, the others wait in pending. When the stream
\* ends, simple mode puts 'finish' (line 463) and step mode goes back to the
\* loop (after the sleep); an exception of the stream is not caught in
\* _handle_response_stream and reaches the except clause of _job_worker.
WorkerNextChunk(w) ==
    /\ workers[w].pc = "stream"
    /\ workers[w].pending = <<>>
    /\ \/ /\ workers[w].yielded < workers[w].kwargs
          /\ \E chunk \in StreamChunks :
               LET n == workers[w].yielded + 1
                   msgs == HandleChunk(chunk, workers[w].count, n)
               IN  IF msgs = <<>>
                   THEN /\ workers' = [workers EXCEPT ![w].yielded = n]
                        /\ UNCHANGED <<JOB_QUEUE, pushed>>
                   ELSE /\ Put(w, msgs[1].msg_type, msgs[1].data)
                        /\ workers' = [workers EXCEPT ![w].yielded = n,
                                                      ![w].pending = Tail(msgs)]
       \/ /\ AfterStream(workers[w].mode) = "done"
          /\ Put(w, "finish", None)
          /\ workers' = [workers EXCEPT ![w].pc = "done"]
       \/ /\ AfterStream(workers[w].mode) = "start"
          /\ workers' = [workers EXCEPT ![w].pc = "start"]
          /\ UNCHANGED <<JOB_QUEUE, pushed>>
       \/ JobWorkerExcept(w)
    /\ WorkerFrame

\* _handle_response_stream, line 438: the put of the next part of the chunk.
WorkerPut(w) ==
    /\ workers[w].pc = "stream"
    /\ workers[w].pending # <<>>
    /\ Put(w, Head(workers[w].pending).msg_type, Head(workers[w].pending).data)
    /\ workers' = [workers EXCEPT ![w].pending = Tail(@)]
    /\ WorkerFrame

\* Line 463 reached through the break of the step loop.
WorkerAfterBreak(w) ==
    /\ workers[w].pc = "break"
    /\ Put(w, "finish", None)
    /\ workers' = [workers EXCEPT ![w].pc = "done"]
    /\ WorkerFrame

\* ---------------------------------------------------- the control thread
\* A reservation that forgets to increment the counter.
NextJobIdStuck(counter) == counter

\* reserve_next_job_id, line 359: the id the call returns.
NextJobId(counter) == counter + 1

\* reserve_next_job_id, lines 361-362: the client is stored when truthy.
ReserveClient(clients, id, client) ==
    IF client # None THEN DictSet(clients, id, client) ELSE clients

\* reserve_next_job_id(job_name, client), called by the glue code before it
\* starts a job under the id.
ReserveNextJobId(job_name, client) ==
    /\ ctl = "idle"
    /\ JOB_COUNTER < MaxJobs
    /\ JOB_COUNTER' = NextJobId(JOB_COUNTER)
    /\ JOB_NAMES' = DictSet(JOB_NAMES, JOB_COUNTER', job_name)
    /\ JOB_CLIENTS' = ReserveClient(JOB_CLIENTS, JOB_COUNTER', client)
    /\ reserved' = Append(reserved, JOB_COUNTER')
    /\ UNCHANGED <<JOB_QUEUE, ACTIVE_JOBS, GENAI_CLIENT, workers, pollState,
                   returned, poll, pushed, delivered, apart>>

\* start_async_job, lines 388-395: the client the worker gets when job_id is
\* supplied: the given one, else the one stored for the id, else get_client().
StartClient(client, job_id) ==
    LET stored == IF client = None THEN DictGet(JOB_CLIENTS, job_id, None)
                  ELSE client
    IN  IF stored = None THEN GENAI_CLIENT ELSE stored

\* start_async_job, lines 390-391: the name is replaced only on the branch
\* taken when job_id is supplied and client is None.
StartNames(client, job_id, job_name) ==
    IF client = None /\ job_name # "Unknown"
    THEN DictSet(JOB_NAMES, job_id, job_name)
    ELSE JOB_NAMES

\* What start_async_job returns: the function has no return statement, so
\* the call evaluates to None, written <<>>; an id j would be <<j>>.
StartReturn(job_id) == <<>>

\* The thread start_async_job spawns and the registration of the callbacks
\* (lines 397-409), under job id id with client c.
Spawn(id, c, kwargs, callbacks, mode) ==
    LET w == Len(workers) + 1 IN
    /\ ACTIVE_JOBS' = DictSet(ACTIVE_JOBS, id, [callbacks EXCEPT !.reg = w])
    /\ workers' = Append(workers, Worker(c, kwargs, id, mode))
    /\ pushed' = Append(pushed, <<>>)
    /\ delivered' = Append(delivered, <<>>)
    /\ returned' = Append(returned, StartReturn(id))
    /\ timer' = StartJobTimer

\* start_async_job(client, kwargs, callbacks, job_id, job_name, target_func);
\* job_id is None (written 0) or an id reserved before, mode says whether
\* target_func was given.
StartAsyncJob(client, kwargs, callbacks, job_id, job_name, mode) ==
    /\ ctl = "idle"
    /\ Len(workers) < MaxWorkers
    /\ IF job_id = 0
       THEN /\ JOB_COUNTER < MaxJobs
            /\ JOB_COUNTER' = NextJobId(JOB_COUNTER)
            /\ JOB_NAMES' = DictSet(JOB_NAMES, JOB_COUNTER', job_name)
            /\ JOB_CLIENTS' = ReserveClient(JOB_CLIENTS, JOB_COUNTER', client)
            /\ reserved' = Append(reserved, JOB_COUNTER')
            /\ Spawn(JOB_COUNTER',
                     IF client = None THEN GENAI_CLIENT ELSE client,
                     kwargs, callbacks, mode)
       ELSE /\ JOB_NAMES' = StartNames(client, job_id, job_name)
            /\ Spawn(job_id, StartClient(client, job_id), kwargs, callbacks, mode)
            /\ UNCHANGED <<JOB_COUNTER, JOB_CLIENTS, reserved>>
    /\ UNCHANGED <<JOB_QUEUE, GENAI_CLIENT, ctl, status_update, shown,
                   poll, apart>>

\* continue_async_job(job_id, prompt, callbacks), lines 415-416.
ContinueAsyncJob(job_id, prompt, callbacks) ==
    StartAsyncJob(None, prompt, callbacks, job_id, "Continue", "simple")

\* ------------------------------------------------------------ process_queue
\* A lookup that ignores the id of the message and takes the oldest job.
ActiveJobsGetOldest(job_id) ==
    IF DOMAIN ACTIVE_JOBS = {} THEN NoCallbacks
    ELSE ACTIVE_JOBS[CHOOSE j \in DOMAIN ACTIVE_JOBS :
                        \A k \in DOMAIN ACTIVE_JOBS : j <= k]

\* Line 478: callbacks = _ACTIVE_JOBS.get(job_id)
ActiveJobsGet(job_id) == DictGet(ACTIVE_JOBS, job_id, NoCallbacks)

\* Lines 483-486: display_status = f"[{job_id}] {status_message}"
DisplayStatus(job_id, callbacks) ==
    "[" \o ToString(job_id) \o "] "
    \o (IF "status_message" \in callbacks.keys THEN "custom"
        ELSE "Processing...")

\* Lines 499-500: the status of an 'error' message.
ErrorStatus(job_id, data) ==
    <<"[" \o ToString(job_id) \o "] [" \o ToString(job_id) \o "] Error: "
      \o data, TRUE>>

\* Line 513: the status of a 'finish' message.
FinishStatus(job_id) == <<"[" \o ToString(job_id) \o "] Finished.", FALSE>>

\* A dispatch that sends every message that is not terminal to on_chunk.
HookOfChunk(msg_type) ==
    CASE msg_type \in {"chunk", "thought"} -> "on_chunk"
      [] msg_type = "error" -> "on_error"
      [] msg_type = "finish" -> "on_finish"

\* The hook a message kind is dispatched to.
HookOf(msg_type) ==
    CASE msg_type = "chunk" -> "on_chunk"
      [] msg_type = "thought" -> "on_thought"
      [] msg_type = "error" -> "on_error"
      [] msg_type = "finish" -> "on_finish"

Terminal(msg_type) == msg_type \in {"error", "finish"}

\* Lines 507-510 and 518-521: the registry after a terminal message of
\* job_id was dispatched.
RemoveJob(jobs, job_id) == DictDel(jobs, job_id)

\* A loop without the check of lines 479-481.
NeverSkipped(callbacks) == FALSE

\* Whether the loop skips a message with no further effect (lines 479-481).
Skipped(callbacks) == ~CallbacksTruthy(callbacks)

\* An exception raised by a callback leaves process_queue: nothing after
\* the call runs, in this iteration or after the loop.
CallbackRaised ==
    /\ ctl' = "idle"
    /\ status_update' = NoStatus
    /\ UNCHANGED <<ACTIVE_JOBS, JOB_NAMES, timer, shown>>

\* What the loop does with message m: it calls the hook of its kind, finds
\* the hook "absent" from the record, or has "skipped" the message.
Disposition(m, callbacks) ==
    IF Skipped(callbacks) THEN "skipped"
    ELSE IF HookOf(m.msg_type) \in callbacks.keys THEN HookOf(m.msg_type)
    ELSE "absent"

\* History of the iteration that took m: the hook called with m.data, if
\* any, and the record (reg) it belongs to, kept for the worker that sent m.
Dispatch(m, callbacks) ==
    delivered' = [delivered EXCEPT
        ![m.w] = Append(@, [msg_type |-> m.msg_type, data |-> m.data,
                            hook |-> Disposition(m, callbacks),
                            reg |-> callbacks.reg])]

\* The timer runs process_queue on the control thread (lines 468-470).
ProcessQueueBegin ==
    /\ ctl = "idle"
    /\ timer = StartJobTimer
    /\ ctl' = "polling"
    /\ status_update' = NoStatus
    /\ UNCHANGED <<JOB_QUEUE, registry, GENAI_CLIENT, workers, timer, shown,
                   histories, apart>>

\* One iteration of the loop of process_queue, lines 472-521: a message is
\* taken from the queue and dispatched.
ProcessQueueMessage ==
    /\ ctl = "polling"
    /\ JOB_QUEUE # <<>>
    /\ LET m == QueueGet(JOB_QUEUE)[1]
           callbacks == ActiveJobsGet(m.job_id)
           called == Disposition(m, callbacks) \in Hooks
       IN
       /\ JOB_QUEUE' = QueueGet(JOB_QUEUE)[2]
       /\ Dispatch(m, callbacks)
       /\ IF Skipped(callbacks)
          THEN UNCHANGED <<ACTIVE_JOBS, JOB_NAMES, pollState>>
          ELSE IF called /\ HookOf(m.msg_type) \in callbacks.raises
          THEN CallbackRaised
          ELSE IF ~Terminal(m.msg_type)
          THEN /\ status_update' =
                     IF called
                     THEN <<DisplayStatus(m.job_id, callbacks), FALSE>>
                     ELSE status_update
               /\ UNCHANGED <<ACTIVE_JOBS, JOB_NAMES, ctl, timer, shown>>
          ELSE /\ status_update' =
                     IF m.msg_type = "error"
                     THEN ErrorStatus(m.job_id, m.data)
                     ELSE FinishStatus(m.job_id)
               /\ ACTIVE_JOBS' = RemoveJob(ACTIVE_JOBS, m.job_id)
               /\ JOB_NAMES' = DictDel(JOB_NAMES, m.job_id)
               /\ UNCHANGED <<ctl, timer, shown>>
    /\ UNCHANGED <<JOB_COUNTER, JOB_CLIENTS, GENAI_CLIENT, workers, reserved,
                   returned, pushed, apart>>

\* A poll that stops the timer once the queue is drained, whatever is
\* registered.
StopsTimerWhenDrained(jobs) == JOB_QUEUE = <<>>

\* A poll that stops the timer whenever it returns.
StopsTimerAlways(jobs) == TRUE

\* Line 527: the condition under which process_queue stops the timer.
StopsTimer(jobs) == DOMAIN jobs = {}

\* A loop that may stop while messages are waiting.
StopsEarly(q) == TRUE

\* Lines 473-476: get_nowait raises queue.Empty, which ends the loop, when
\* the queue has no message.
QueueEmpty(q) == q = <<>>

\* get_nowait raised queue.Empty: lines 523-528, then process_queue returns.
ProcessQueueEnd ==
    /\ ctl = "polling"
    /\ QueueEmpty(JOB_QUEUE)
    /\ shown' = IF status_update # NoStatus THEN status_update ELSE shown
    /\ timer' = IF StopsTimer(ACTIVE_JOBS) THEN StopJobTimer ELSE timer
    /\ ctl' = "idle"
    /\ status_update' = NoStatus
    /\ UNCHANGED <<JOB_QUEUE, registry, GENAI_CLIENT, workers, histories,
                   apart>>

\* ------------------------------------------------------- the specification
JobIds == 1..JOB_COUNTER

\* The calls of the glue code: code.py and ripgrep.py reserve an id with a
\* name and no client, then start a simple job under it with their client;
\* chat.py starts a step-function job with no id; a job can be started again
\* under an id in use, and continue_async_job does so with no client.
Next ==
    \/ ReserveNextJobId("Code", None) /\ UNCHANGED session
    \/ \E callbacks \in CallbackSet, job_id \in {0} \cup JobIds,
          mode \in {"simple", "step"} :
          /\ StartAsyncJob("client", MaxChunks, callbacks, job_id,
                           "Unknown", mode)
          /\ UNCHANGED session
    \/ \E job_id \in JobIds, callbacks \in CallbackSet :
          /\ ContinueAsyncJob(job_id, MaxChunks, callbacks)
          /\ UNCHANGED session
    \/ ProcessQueueBegin /\ UNCHANGED <<poll, session>>
    \/ ProcessQueueMessage /\ UNCHANGED <<poll, session>>
    \/ ProcessQueueEnd /\ UNCHANGED <<poll, session>>
    \/ \E w \in WorkerIds : WorkerGenerate(w) /\ UNCHANGED session
    \/ \E w \in WorkerIds : WorkerTarget(w) /\ UNCHANGED session
    \/ \E w \in WorkerIds : WorkerNextChunk(w) /\ UNCHANGED session
    \/ \E w \in WorkerIds : WorkerPut(w) /\ UNCHANGED session
    \/ \E w \in WorkerIds : WorkerAfterBreak(w) /\ UNCHANGED session

Spec == Init /\ [][Next]_vars

\* ------------------------------------------------------------- properties
IsTerminal(e) == Terminal(e.msg_type)

\* The terminal messages worker w has put on the queue.
TerminalsPushed(w) == SelectSeq(pushed[w], IsTerminal)

\* The start_async_job calls made under the job id of worker w.
Registrations(j) == {r \in WorkerIds : workers[r].job_id = j}

\* Worker w belongs to a job whose id was registered once: one
\* start_async_job call, one worker, one callback record.
SingleJob(w) == Registrations(workers[w].job_id) = {w}

\* process_queue takes a message in this step; only process_queue shortens
\* the queue.
Dequeues == Len(JOB_QUEUE') < Len(JOB_QUEUE)

\* The calls of the terminal hooks of the record registered by call r.
TerminalCalls(r) ==
    UNION { {<<w, i>> : i \in {k \in 1..Len(delivered[w]) :
                                 /\ delivered[w][k].reg = r
                                 /\ delivered[w][k].hook \in
                                       {"on_error", "on_finish"}}} :
            w \in WorkerIds }

\* C1: every run of _job_worker puts chunk/thought messages and then exactly
\* one terminal message, 'error' or 'finish': never two, and one once the
\* worker has returned, with no message after it.
C1_WorkerTerminalOnce ==
    \A w \in WorkerIds :
        /\ Len(TerminalsPushed(w)) <= 1
        /\ workers[w].pc = "done" =>
              /\ Len(TerminalsPushed(w)) = 1
              /\ IsTerminal(pushed[w][Len(pushed[w])])

\* C2: for every started job, exactly one terminal callback is called on the
\* record it was started with: never on_error and on_finish both, never one
\* of them twice, and one of them once its worker's messages are all taken
\* (unless the record has no hooks).
C2_TerminalCallbackOnce ==
    \A r \in WorkerIds :
        /\ Cardinality(TerminalCalls(r)) <= 1
        /\ ( /\ SingleJob(r)
             /\ workers[r].pc = "done"
             /\ Len(delivered[r]) = Len(pushed[r])
             /\ \E i \in 1..Len(delivered[r]) : delivered[r][i].hook # "skipped" )
           => Cardinality(TerminalCalls(r)) = 1

\* The message process_queue takes in a step that dequeues, and the record
\* registered for it.
Taken == Head(JOB_QUEUE)
TakenCallbacks == ActiveJobsGet(Taken.job_id)

\* C3: when a callback called by process_queue raises, the same call goes on
\* draining the queue, and a terminal message whose callback raised still
\* removes its job from _ACTIVE_JOBS.
C3_CallbackIsolation ==
    [][ ( /\ Dequeues
          /\ Disposition(Taken, TakenCallbacks) \in TakenCallbacks.raises )
        => /\ ctl' = "polling"
           /\ Terminal(Taken.msg_type) =>
                 Taken.job_id \notin DOMAIN ACTIVE_JOBS' ]_vars

\* C4: whatever callback record a job was registered with, the empty one
\* included, the iteration that takes the job's 'error' or 'finish' message
\* leaves the id absent from _ACTIVE_JOBS (stated for records whose hooks do
\* not raise).
C4_TerminalRemovesJob ==
    [][ ( /\ Dequeues
          /\ Terminal(Taken.msg_type)
          /\ Taken.job_id \in DOMAIN ACTIVE_JOBS
          /\ TakenCallbacks.raises = {} )
        => Taken.job_id \notin DOMAIN ACTIVE_JOBS' ]_vars

\* The messages of worker w were taken in the order it put them, each once:
\* what process_queue has seen of w is a prefix of what w pushed.
InOrder(w) ==
    /\ Len(delivered[w]) <= Len(pushed[w])
    /\ \A i \in 1..Len(delivered[w]) :
          /\ delivered[w][i].msg_type = pushed[w][i].msg_type
          /\ delivered[w][i].data = pushed[w][i].data
          /\ delivered[w][i].hook \in
                {HookOf(pushed[w][i].msg_type), "absent", "skipped"}

\* No fragment of worker w was dropped on the way to the record's hooks: a
\* chunk or thought message is skipped only under a record with no members,
\* which skips every message.
NoFragmentLost(w) ==
    \A i \in 1..Len(delivered[w]) :
        (~IsTerminal(delivered[w][i]) /\ delivered[w][i].hook = "skipped")
        => \A k \in 1..Len(delivered[w]) : delivered[w][k].hook = "skipped"

\* C5: for a single job, process_queue calls on_chunk/on_thought with the
\* fragments in the order the worker put them and the terminal callback
\* after all of them; no fragment is reordered, duplicated or lost.
C5_FifoPerJob ==
    \A w \in WorkerIds :
        /\ InOrder(w)
        /\ SingleJob(w) => NoFragmentLost(w)

C5_Witness ==
    \E w \in WorkerIds :
        /\ SingleJob(w)
        /\ Len(delivered[w]) = 3
        /\ delivered[w][1].hook = "on_thought"
        /\ delivered[w][2].hook = "on_chunk"
        /\ delivered[w][3].hook = "on_finish"

\* Every hook called for a message of worker w belongs to a record
\* registered under w's job id: to w's own record when the id was
\* registered once.
OnlyOwn(w) ==
    \A i \in 1..Len(delivered[w]) :
        delivered[w][i].hook \in Hooks =>
            /\ delivered[w][i].reg \in Registrations(workers[w].job_id)
            /\ \A k \in 1..i : delivered[w][k].data = pushed[w][k].data

\* A simple worker that ended normally and whose messages are all taken got
\* the finish of its own record (unless the record has no members).
OwnFinish(w) ==
    ( /\ workers[w].mode = "simple"
      /\ workers[w].pc = "done"
      /\ ~workers[w].raised
      /\ Len(delivered[w]) = Len(pushed[w]) )
    => LET last == delivered[w][Len(delivered[w])] IN
       /\ last.msg_type = "finish"
       /\ last.hook = "skipped" =>
             \A k \in 1..Len(delivered[w]) : delivered[w][k].hook = "skipped"

\* C6: two concurrent jobs, under every interleaving of their workers'
\* puts: the callbacks of each receive only the payloads of its own worker,
\* in that worker's order, each job gets its own finish, and a job leaves
\* the registry only through a terminal message carrying its own id.
C6_ConcurrentJobs ==
    /\ [](\A w \in WorkerIds :
            /\ OnlyOwn(w)
            /\ SingleJob(w) => OwnFinish(w))
    /\ [][ \A j \in DOMAIN ACTIVE_JOBS \ DOMAIN ACTIVE_JOBS' :
              /\ Dequeues
              /\ Taken.job_id = j
              /\ Terminal(Taken.msg_type) ]_vars

C6_Witness ==
    /\ Len(workers) = 2
    /\ workers[1].job_id # workers[2].job_id
    /\ \A w \in {1, 2} :
          /\ Len(delivered[w]) >= 2
          /\ delivered[w][1].hook = "on_chunk"
          /\ delivered[w][Len(delivered[w])].hook = "on_finish"
    /\ workers[2].pc = "done" /\ Len(delivered[1]) = Len(pushed[1])

\* C7: the ids assigned by reserve_next_job_id and by start_async_job
\* without a job_id are strictly increasing, hence pairwise distinct, and
\* the counter is the last of them.
C7_IdsStrictlyIncreasing ==
    /\ \A i, k \in 1..Len(reserved) : i < k => reserved[i] < reserved[k]
    /\ \A i \in 1..Len(reserved) : reserved[i] <= JOB_COUNTER

C7_Witness ==
    /\ Len(reserved) >= 2
    /\ \E w \in WorkerIds : workers[w].job_id = reserved[Len(reserved)]
    /\ \A w \in WorkerIds : workers[w].job_id # reserved[1]

\* C8: when a simple-mode producer yields fragments and then raises, every
\* fragment put before the exception reaches its hook (when the record has
\* it), then on_error is called exactly once with the exception text,
\* on_finish is never called, and no exception leaves _job_worker.
C8_ProducerRaises ==
    \A w \in WorkerIds :
        (workers[w].mode = "simple" /\ workers[w].raised)
        => LET d == delivered[w]
               p == pushed[w]
           IN  /\ workers[w].pc = "done"
               /\ TerminalsPushed(w) = <<[msg_type |-> "error", data |-> "exc"]>>
               /\ IsTerminal(p[Len(p)])
               /\ SingleJob(w) =>
                     /\ \A i \in 1..Len(d) : d[i].hook # "on_finish"
                     /\ Cardinality({i \in 1..Len(d) :
                                        d[i].hook = "on_error"}) <= 1
                     /\ \A i \in 1..Len(d) : d[i].hook = "on_error" =>
                           /\ i = Len(p)
                           /\ d[i].data = "exc"
                           /\ \A k \in 1..(i - 1) :
                                 /\ d[k].data = p[k].data
                                 /\ d[k].hook \in
                                       {HookOf(p[k].msg_type), "absent"}

C8_Witness ==
    \E w \in WorkerIds :
        /\ workers[w].mode = "simple" /\ workers[w].raised /\ SingleJob(w)
        /\ Len(pushed[w]) >= 2
        /\ Len(delivered[w]) = Len(pushed[w])
        /\ delivered[w][1].hook \in {"on_chunk", "on_thought"}
        /\ delivered[w][Len(delivered[w])].hook = "on_error"

\* C9: a message whose job id is no longer in _ACTIVE_JOBS (its terminal
\* message was drained) calls no hook, changes neither the registry nor the
\* status, raises nothing, and the loop goes on.
C9_StaleMessageNoOp ==
    [][ (Dequeues /\ Taken.job_id \notin DOMAIN ACTIVE_JOBS)
        => /\ UNCHANGED <<registry, status_update, shown, timer>>
           /\ ctl' = "polling"
           /\ \A w \in WorkerIds :
                 \A i \in (Len(delivered[w]) + 1)..Len(delivered'[w]) :
                     delivered'[w][i].hook \notin Hooks ]_vars

C9_Witness ==
    /\ ctl = "polling"
    /\ \E w \in WorkerIds :
         \E i, k \in 1..Len(delivered[w]) :
            /\ i < k
            /\ IsTerminal(delivered[w][i])
            /\ delivered[w][i].hook \in Hooks
            /\ delivered[w][k].hook = "skipped"
            /\ workers[w].job_id \notin DOMAIN ACTIVE_JOBS

\* C10: a process_queue call that returns with _ACTIVE_JOBS empty issues
\* the stop-timer command, and one that returns with _ACTIVE_JOBS non-empty
\* does not.
C10_IdleTimerStop ==
    [][ (ctl = "polling" /\ ctl' = "idle" /\ JOB_QUEUE' = JOB_QUEUE)
        => ( (timer = "running" /\ timer' = "stopped")
             <=> DOMAIN ACTIVE_JOBS' = {} ) ]_vars

C10_Witness ==
    /\ ctl = "idle"
    /\ timer = "stopped"
    /\ workers # <<>>
    /\ DOMAIN ACTIVE_JOBS = {}

\* --------------------------------------------------- the drain specification
\* The history of one process_queue call, kept beside its three steps.
TrackBegin ==
    poll' = [began |-> Len(JOB_QUEUE), taken |-> 0, exit |-> "none"]

TrackMessage ==
    poll' = [poll EXCEPT !.taken = @ + 1,
                         !.exit = IF ctl' = "idle" THEN "raised" ELSE "none"]

TrackEnd == poll' = [poll EXCEPT !.exit = "normal"]

\* Jobs started without an id, in both modes, with every record; the
\* process_queue calls keep the history poll.
NextDrain ==
    \/ \E callbacks \in CallbackSet, mode \in {"simple", "step"} :
          /\ StartAsyncJob("client", MaxChunks, callbacks, 0, "Unknown", mode)
          /\ UNCHANGED session
    \/ ProcessQueueBegin /\ TrackBegin /\ UNCHANGED session
    \/ ProcessQueueMessage /\ TrackMessage /\ UNCHANGED session
    \/ ProcessQueueEnd /\ TrackEnd /\ UNCHANGED session
    \/ \E w \in WorkerIds : WorkerGenerate(w) /\ UNCHANGED session
    \/ \E w \in WorkerIds : WorkerTarget(w) /\ UNCHANGED session
    \/ \E w \in WorkerIds : WorkerNextChunk(w) /\ UNCHANGED session
    \/ \E w \in WorkerIds : WorkerPut(w) /\ UNCHANGED session
    \/ \E w \in WorkerIds : WorkerAfterBreak(w) /\ UNCHANGED session

SpecDrain == Init /\ [][NextDrain]_vars

\* C11: a process_queue call that returns normally has taken at least as
\* many messages as the queue held when it began (all of them, not just
\* one: only process_queue removes messages, oldest first); at its return
\* the queue is empty and every message put so far has been dispatched.
C11_FullDrain ==
    /\ [](poll.exit = "normal" => poll.taken >= poll.began)
    /\ [][ (poll.exit # "normal" /\ poll'.exit = "normal")
           => /\ JOB_QUEUE' = <<>>
              /\ \A w \in WorkerIds : Len(delivered'[w]) = Len(pushed'[w]) ]_vars

C11_Witness ==
    /\ poll.exit = "normal"
    /\ poll.began >= 2
    /\ poll.taken >= poll.began
    /\ ctl = "idle"

\* Job id j is DONE: a terminal message of one of its workers was dispatched
\* under a record and the id is no longer in _ACTIVE_JOBS.
Done(j) ==
    /\ j \notin DOMAIN ACTIVE_JOBS
    /\ \E w \in Registrations(j) : \E i \in 1..Len(delivered[w]) :
          /\ IsTerminal(delivered[w][i])
          /\ delivered[w][i].hook # "skipped"

\* C12: once a job id is DONE, no call puts it back into _ACTIVE_JOBS or
\* starts another worker under it.
C12_DoneIsFinal ==
    [][ \A j \in JobIds :
          Done(j) => /\ j \notin DOMAIN ACTIVE_JOBS'
                     /\ \A w \in DOMAIN workers' \ DOMAIN workers :
                           workers'[w].job_id # j ]_vars

\* The client of the first worker started under job id j: the client the
\* job was originally started with.
FirstClient(j) ==
    workers[CHOOSE w \in Registrations(j) :
               \A r \in Registrations(j) : w <= r].client

\* C13: a job continued with its id and no client (continue_async_job) runs
\* with the client the job was first started with, whether the id came from
\* start_async_job itself or from reserve_next_job_id; a client given
\* explicitly is the one the worker gets.
C13_ClientReuse ==
    [][ /\ \A job_id \in JobIds, callbacks \in CallbackSet :
             ( /\ Registrations(job_id) # {}
               /\ ContinueAsyncJob(job_id, MaxChunks, callbacks) )
             => workers'[Len(workers')].client = FirstClient(job_id)
        /\ \A job_id \in {0} \cup JobIds, callbacks \in CallbackSet,
              mode \in {"simple", "step"} :
             StartAsyncJob("client", MaxChunks, callbacks, job_id, "Unknown",
                           mode)
             => workers'[Len(workers')].client = "client" ]_vars

\* ---------------------------------------------------- the chat specification
\* chat.py: chat() starts one step-function job with its record and no id
\* when no chat job is running (its on_finish and on_error clear the running
\* flag when the job leaves the registry); the step function returns up to
\* MaxStreams streams, one for each new prompt.
NextChat ==
    \/ /\ DOMAIN ACTIVE_JOBS = {}
       /\ StartAsyncJob("client", MaxStreams, ChatHooks, 0, "Chat", "step")
       /\ UNCHANGED session
    \/ ProcessQueueBegin /\ UNCHANGED <<poll, session>>
    \/ ProcessQueueMessage /\ UNCHANGED <<poll, session>>
    \/ ProcessQueueEnd /\ UNCHANGED <<poll, session>>
    \/ \E w \in WorkerIds : WorkerTarget(w) /\ UNCHANGED session
    \/ \E w \in WorkerIds : WorkerNextChunk(w) /\ UNCHANGED session
    \/ \E w \in WorkerIds : WorkerPut(w) /\ UNCHANGED session
    \/ \E w \in WorkerIds : WorkerAfterBreak(w) /\ UNCHANGED session

SpecChat == Init /\ [][NextChat]_vars

\* What callbacks['on_error'](data) returns: the on_error of chat.py returns
\* a text, written <<text>>, the others return None, written <<>>.
OnErrorReturn(callbacks, data) ==
    IF "on_error" \in callbacks.returns THEN <<"Chat Error: " \o data>>
    ELSE <<>>

\* C14: on an 'error' message whose on_error is present and returns a value,
\* that value (alone or behind the job id) is the status of the message;
\* the default "Error: <message>" status is used only when on_error is
\* absent or returns nothing.
C14_OnErrorStatus ==
    [][ ( /\ Dequeues
          /\ Taken.msg_type = "error"
          /\ ~Skipped(TakenCallbacks)
          /\ "on_error" \notin TakenCallbacks.raises )
        => LET ret == OnErrorReturn(TakenCallbacks, Taken.data) IN
           IF "on_error" \in TakenCallbacks.keys /\ ret # <<>>
           THEN /\ status_update'[2] = TRUE
                /\ status_update'[1] \in
                      {ret[1], "[" \o ToString(Taken.job_id) \o "] " \o ret[1]}
           ELSE status_update' = ErrorStatus(Taken.job_id, Taken.data) ]_vars

\* A step in which the running process_queue call ends, normally or not.
CallEnds == ctl = "polling" /\ ctl' = "idle"

\* The status a taken message produces under its record, if it produces
\* one: a fragment whose hook is called, and every terminal message.
Produces(m, callbacks) ==
    /\ ~Skipped(callbacks)
    /\ Terminal(m.msg_type) \/ HookOf(m.msg_type) \in callbacks.keys

StatusPrefix(job_id) == "[" \o ToString(job_id) \o "] "

\* The status texts, behind the prefix, process_queue builds for message m.
StatusTexts(m) ==
    {"Processing...", "custom", "Finished.",
     StatusPrefix(m.job_id) \o "Error: " \o m.data}

\* C15: display_message is called by process_queue at most once per call, at
\* its end; a call in which a taken message produced a status displays
\* exactly one, the status of the last such message, which starts with that
\* message's job id.
C15_StatusBatching ==
    [][ /\ shown' # shown => (CallEnds /\ shown' = status_update)
        /\ (CallEnds /\ ~Dequeues /\ status_update # NoStatus)
              => shown' = status_update
        /\ (CallEnds /\ Dequeues)
              => ( (status_update # NoStatus \/ Produces(Taken, TakenCallbacks))
                   => shown' # shown )
        /\ (Dequeues /\ ~CallEnds)
              => IF Produces(Taken, TakenCallbacks)
                 THEN \E text \in StatusTexts(Taken) :
                         status_update'[1] = StatusPrefix(Taken.job_id) \o text
                 ELSE status_update' = status_update ]_vars

\* A step of a worker thread: the locals of an existing worker change, or it
\* puts a message.
WorkerStep ==
    \E w \in WorkerIds : workers'[w] # workers[w] \/ pushed'[w] # pushed[w]

\* A step of the control thread: start_async_job, reserve_next_job_id, or a
\* step of process_queue.
ControlStep ==
    \/ Len(workers') > Len(workers)
    \/ Len(reserved') > Len(reserved)
    \/ ctl = "polling" \/ ctl' = "polling"

\* C16: a step of a worker thread changes neither _ACTIVE_JOBS, _JOB_COUNTER,
\* _JOB_NAMES nor _JOB_CLIENTS, calls no host operation (timer, displayed
\* status) and dispatches nothing; its only effect on shared state is a
\* message appended to _JOB_QUEUE. The registry and the counter change only
\* in steps of the control thread.
C16_WorkerFrame ==
    /\ [][ WorkerStep
           => /\ UNCHANGED <<registry, GENAI_CLIENT, pollState, reserved,
                             returned, delivered>>
              /\ \/ JOB_QUEUE' = JOB_QUEUE
                 \/ /\ Len(JOB_QUEUE') = Len(JOB_QUEUE) + 1
                    /\ SubSeq(JOB_QUEUE', 1, Len(JOB_QUEUE)) = JOB_QUEUE ]_vars
    /\ [][ (registry' # registry) => (ControlStep /\ ~WorkerStep) ]_vars

C16_Witness ==
    \E w \in WorkerIds :
        /\ workers[w].pc = "done"
        /\ Len(pushed[w]) >= 2
        /\ delivered[w] = <<>>
        /\ workers[w].job_id \in DOMAIN ACTIVE_JOBS
        /\ ACTIVE_JOBS[workers[w].job_id].reg = w
        /\ ctl = "polling"

\* The stream, chunk and part a fragment text comes from.
TextOrigin(t) ==
    CHOOSE p \in (0..MaxStreams) \X (1..MaxStreams) \X (0..2) :
        Text(p[1], p[2], p[3]) = t

\* Fragment a comes from an earlier stream than b, or earlier in the same.
Before(a, b) ==
    LET x == TextOrigin(a)
        y == TextOrigin(b)
    IN  \/ x[1] < y[1]
        \/ x[1] = y[1] /\ x[2] < y[2]
        \/ x[1] = y[1] /\ x[2] = y[2] /\ x[3] < y[3]

StepWorkers == {w \in WorkerIds : workers[w].mode = "step"}

\* C17: a step-function worker whose step function has returned only
\* non-zero counters (and whose streams did not raise) has put no terminal
\* message: its only terminals are the 'error' of a zero counter or of an
\* exception, and 'finish' only right after the former; the end of a stream
\* puts nothing. The chunks of its streams reach on_chunk with the text the
\* worker put, ordered by the stream that produced them.
C17_StepContinuation ==
    /\ [](\A w \in StepWorkers :
            /\ workers[w].pc \in {"start", "stream"}
                  => TerminalsPushed(w) = <<>>
            /\ \A i \in 1..Len(pushed[w]) :
                  pushed[w][i].msg_type = "finish"
                  => /\ i > 1
                     /\ pushed[w][i - 1] = [msg_type |-> "error", data |-> "msg"]
            /\ \A i \in 1..Len(delivered[w]) :
                  delivered[w][i].msg_type = "chunk"
                  => /\ delivered[w][i].hook = "on_chunk"
                     /\ delivered[w][i].data = pushed[w][i].data
            /\ \A i, k \in 1..Len(delivered[w]) :
                  ( /\ i < k
                    /\ ~IsTerminal(delivered[w][i])
                    /\ ~IsTerminal(delivered[w][k]) )
                  => Before(delivered[w][i].data, delivered[w][k].data))
    /\ [][ \A w \in StepWorkers :
             (workers[w].pc = "stream" /\ workers'[w].pc = "start")
             => pushed'[w] = pushed[w] ]_vars

C17_Witness ==
    \E w \in StepWorkers :
        /\ workers[w].pc = "start"
        /\ workers[w].count = 2
        /\ TerminalsPushed(w) = <<>>
        /\ workers[w].job_id \in DOMAIN ACTIVE_JOBS
        /\ \E i, k \in 1..Len(delivered[w]) :
              /\ i < k
              /\ delivered[w][i].hook = "on_chunk"
              /\ delivered[w][k].hook = "on_chunk"
              /\ TextOrigin(delivered[w][i].data)[1] = 1
              /\ TextOrigin(delivered[w][k].data)[1] = 2

\* ------------------------------------------------ the liveness specification
\* Simple streaming jobs started without an id, with every record. The
\* worker threads are scheduled fairly, and while the timer runs the host
\* keeps calling process_queue, which runs to its end once called.
NextLive ==
    \/ \E callbacks \in CallbackSet :
          /\ StartAsyncJob("client", MaxChunks, callbacks, 0, "Unknown",
                           "simple")
          /\ UNCHANGED session
    \/ ProcessQueueBegin /\ UNCHANGED <<poll, session>>
    \/ ProcessQueueMessage /\ UNCHANGED <<poll, session>>
    \/ ProcessQueueEnd /\ UNCHANGED <<poll, session>>
    \/ \E w \in WorkerIds : WorkerGenerate(w) /\ UNCHANGED session
    \/ \E w \in WorkerIds : WorkerNextChunk(w) /\ UNCHANGED session
    \/ \E w \in WorkerIds : WorkerPut(w) /\ UNCHANGED session

SpecLive ==
    /\ Init
    /\ [][NextLive]_vars
    /\ WF_vars(ProcessQueueBegin /\ UNCHANGED <<poll, session>>)
    /\ WF_vars(ProcessQueueMessage /\ UNCHANGED <<poll, session>>)
    /\ WF_vars(ProcessQueueEnd /\ UNCHANGED <<poll, session>>)
    /\ \A w \in 1..MaxWorkers :
          /\ WF_vars(w \in WorkerIds /\ WorkerGenerate(w) /\ UNCHANGED session)
          /\ WF_vars(w \in WorkerIds /\ WorkerNextChunk(w) /\ UNCHANGED session)
          /\ WF_vars(w \in WorkerIds /\ WorkerPut(w) /\ UNCHANGED session)

\* Worker w has returned, its messages are all taken and its job id is no
\* longer in _ACTIVE_JOBS: the job is DONE.
JobDone(w) ==
    /\ w \in WorkerIds
    /\ workers[w].pc = "done"
    /\ Len(delivered[w]) = Len(pushed[w])
    /\ workers[w].job_id \notin DOMAIN ACTIVE_JOBS

\* C18: under fair scheduling every simple job that was started becomes
\* DONE, and once jobs were started and none is registered the timer is
\* eventually stopped.
C18_SimpleJobLiveness ==
    /\ \A w \in 1..MaxWorkers : (w \in WorkerIds) ~> JobDone(w)
    /\ (workers # <<>> /\ DOMAIN ACTIVE_JOBS = {}) ~> (timer = StopJobTimer)

\* C19: every start_async_job call returns the id under which it registered
\* the job: the freshly reserved id when job_id was omitted, the supplied
\* id otherwise.
C19_StartReturnsId ==
    \A w \in WorkerIds : returned[w] = <<workers[w].job_id>>

\* A step of start_async_job: it is the only operation that starts a thread.
StartStep == Len(workers') > Len(workers)

\* C20: a start_async_job call registers the callbacks it was given under
\* the job id, replacing the entry of that id if there is one, spawns
\* exactly one worker, bound to that id, and starts the timer; it leaves
\* the entries of the other ids, the other workers and the queue as they
\* were, and the counter too when the id was supplied (a fresh id is the
\* counter plus one).
C20_StartEffect ==
    [][ StartStep
        => LET w == Len(workers')
               j == workers'[w].job_id
           IN  /\ w = Len(workers) + 1
               /\ \A k \in WorkerIds : workers'[k] = workers[k]
               /\ workers'[w].pc = "start"
               /\ DOMAIN ACTIVE_JOBS' = DOMAIN ACTIVE_JOBS \cup {j}
               /\ \E callbacks \in CallbackSet :
                     ACTIVE_JOBS'[j] = [callbacks EXCEPT !.reg = w]
               /\ \A k \in DOMAIN ACTIVE_JOBS \ {j} :
                     ACTIVE_JOBS'[k] = ACTIVE_JOBS[k]
               /\ timer' = StartJobTimer
               /\ j <= JOB_COUNTER => JOB_COUNTER' = JOB_COUNTER
               /\ j > JOB_COUNTER =>
                     (j = JOB_COUNTER + 1 /\ JOB_COUNTER' = j)
               /\ JOB_QUEUE' = JOB_QUEUE ]_vars

C20_Witness ==
    /\ Len(workers) = 2
    /\ reserved = <<1, 2>>
    /\ workers[1].job_id = 2
    /\ workers[2].job_id = 1
    /\ workers[2].pc = "start"
    /\ DOMAIN ACTIVE_JOBS = {1, 2}
    /\ ACTIVE_JOBS[2].reg = 1
    /\ ACTIVE_JOBS[1].reg = 2
    /\ timer = StartJobTimer

\* --------------------------------------------- re-registration of an id
\* A worker thread is live from its creation until _job_worker returns or
\* an exception leaves it.
Live(w) == workers[w].pc \notin {"done", "crashed"}

\* C22: at every moment at most one live worker thread is bound to a given
\* job id, whatever start_async_job and continue_async_job calls were made,
\* those that name the id of a job that is still running included.
C22_SingleProducer ==
    \A j \in JobIds :
        Cardinality({w \in WorkerIds : workers[w].job_id = j /\ Live(w)}) <= 1

\* C27: whenever _ACTIVE_JOBS is non-empty the polling timer is running: the
\* last timer signal issued was a start, not a stop.
C27_PollingInvariant == DOMAIN ACTIVE_JOBS # {} => timer = StartJobTimer

\* A process_queue call has returned and left the timer running because a
\* job is still registered.
C27_Witness ==
    /\ ctl = "idle"
    /\ shown # NoStatus
    /\ DOMAIN ACTIVE_JOBS # {}
    /\ timer = StartJobTimer
    /\ \E w \in WorkerIds : delivered[w] # <<>>

\* C28: when a job id is registered again after or while an earlier worker
\* ran under it, a message of the earlier worker is never dispatched to the
\* new callbacks and never removes the new registration.
C28_NoCrossGeneration ==
    [][ ( /\ Dequeues
          /\ Taken.job_id \in DOMAIN ACTIVE_JOBS
          /\ Taken.w < TakenCallbacks.reg )
        => /\ Disposition(Taken, TakenCallbacks) \notin Hooks
           /\ Taken.job_id \in DOMAIN ACTIVE_JOBS'
           /\ ACTIVE_JOBS'[Taken.job_id] = TakenCallbacks ]_vars

\* The hook the record of the job has for a 'chunk' or 'thought' message:
\* on_chunk for 'chunk', on_thought for 'thought'.
Matching(m) == IF m.msg_type = "chunk" THEN "on_chunk" ELSE "on_thought"

\* C24: the iteration of process_queue that takes a 'chunk' or 'thought'
\* message leaves _ACTIVE_JOBS, _JOB_NAMES and the id counter unchanged and
\* calls at most the matching hook of the record registered for the
\* message's job; when the record lacks that hook no callback is called and
\* status_update keeps its value.
C24_ChunkKeepsRunning ==
    [][ ( /\ Dequeues
          /\ Taken.msg_type \in {"chunk", "thought"} )
        => /\ UNCHANGED <<ACTIVE_JOBS, JOB_NAMES, JOB_COUNTER>>
           /\ LET d == delivered'[Taken.w][Len(delivered'[Taken.w])] IN
              /\ Len(delivered'[Taken.w]) = Len(delivered[Taken.w]) + 1
              /\ d.hook \in {Matching(Taken), "absent", "skipped"}
              /\ d.hook = Matching(Taken) <=>
                    Matching(Taken) \in TakenCallbacks.keys
              /\ d.hook = Matching(Taken) =>
                    /\ d.reg = TakenCallbacks.reg
                    /\ d.data = Taken.data
              /\ Matching(Taken) \notin TakenCallbacks.keys =>
                    UNCHANGED <<status_update, shown, ctl>> ]_vars

\* A 'thought' message was consumed for a record without on_thought, and a
\* 'chunk' message was handed to on_chunk, the job still registered.
C24_Witness ==
    \E w \in WorkerIds :
        /\ \E i \in 1..Len(delivered[w]) :
              /\ delivered[w][i].msg_type = "thought"
              /\ delivered[w][i].hook = "absent"
        /\ \E i \in 1..Len(delivered[w]) :
              /\ delivered[w][i].msg_type = "chunk"
              /\ delivered[w][i].hook = "on_chunk"
        /\ workers[w].job_id \in DOMAIN ACTIVE_JOBS

\* ------------------------------------------ the step-function specification
\* What the history calls keeps of a call of the step function by worker w:
\* the counter passed, and the counter and response returned.
Call(w, arg, ret) ==
    [w |-> w, arg |-> arg, next_count |-> ret.next_count,
     response |-> ret.response]

\* What stands for the outcome of a call that raised.
Raised == [next_count |-> -1, response |-> None]

\* WorkerTarget with the history of the call: lines 451-457.
StepCall(w) ==
    /\ workers[w].mode = "step"
    /\ workers[w].pc = "start"
    /\ Len(calls) < MaxCalls
    /\ \/ /\ JobWorkerExcept(w)
          /\ calls' = Append(calls, Call(w, workers[w].count, Raised))
       \/ \E ret \in StepReturns(workers[w].count, workers[w].kwargs) :
            /\ TargetReturns(w, ret)
            /\ calls' = Append(calls, Call(w, workers[w].count, ret))
    /\ WorkerFrame

\* Step-function jobs started without an id, one at a time as chat.py does,
\* with the record of chat.py or with the four hooks; every call of the step
\* function is kept in calls.
NextStep ==
    \/ \E callbacks \in {ChatHooks, AllHooks} :
          /\ DOMAIN ACTIVE_JOBS = {}
          /\ StartAsyncJob("client", MaxStreams, callbacks, 0, "Unknown",
                           "step")
          /\ UNCHANGED session
    \/ ProcessQueueBegin /\ UNCHANGED <<poll, session>>
    \/ ProcessQueueMessage /\ UNCHANGED <<poll, session>>
    \/ ProcessQueueEnd /\ UNCHANGED <<poll, session>>
    \/ \E w \in WorkerIds :
          StepCall(w) /\ UNCHANGED <<chat_session, asked, sent>>
    \/ \E w \in WorkerIds : WorkerNextChunk(w) /\ UNCHANGED session
    \/ \E w \in WorkerIds : WorkerPut(w) /\ UNCHANGED session
    \/ \E w \in WorkerIds : WorkerAfterBreak(w) /\ UNCHANGED session

SpecStep == Init /\ [][NextStep]_vars

\* The calls of the step function made by worker w, in order.
CallsOf(w) == SelectSeq(calls, LAMBDA c : c.w = w)

\* The worker called the step function with the counter the previous call
\* returned, 0 the first time, and never again after a call that returned
\* counter 0 or raised.
CountersChained(w) ==
    LET cs == CallsOf(w) IN
    /\ cs # <<>> => cs[1].arg = 0
    /\ \A i \in 1..(Len(cs) - 1) :
          /\ cs[i].next_count > 0
          /\ cs[i + 1].arg = cs[i].next_count

\* The last call of the step function by worker w returned counter 0 or
\* raised.
LastCallEnded(w) ==
    LET cs == CallsOf(w) IN
    cs # <<>> /\ cs[Len(cs)].next_count \in {0, -1}

\* The loop of worker w has stopped: the worker is past the break or returned.
LoopStopped(w) == workers[w].pc \in {"break", "done", "crashed"}

\* After a call that returned (0, msg) the worker put 'error' with msg, and
\* process_queue hands it to on_error of the job's record, which ends the job.
EndsWithOnError(w) ==
    LET cs == CallsOf(w) IN
    ( cs # <<>> /\ cs[Len(cs)].next_count = 0 ) =>
       /\ LoopStopped(w)
       /\ pushed[w] # <<>>
       /\ \E i \in 1..Len(pushed[w]) :
             /\ pushed[w][i] = [msg_type |-> "error", data |-> "msg"]
             /\ Len(delivered[w]) >= i =>
                   /\ delivered[w][i].hook = "on_error"
                   /\ delivered[w][i].data = "msg"
                   /\ delivered[w][i].reg = w
                   /\ workers[w].job_id \notin DOMAIN ACTIVE_JOBS

StreamRaised(w) ==
    LET cs == CallsOf(w) IN
    /\ cs # <<>>
    /\ cs[Len(cs)].response = "stream"
    /\ workers[w].raised
    /\ pushed[w] # <<>>
    /\ pushed[w][Len(pushed[w])] = [msg_type |-> "error", data |-> "exc"]

InitNoClient ==
    /\ InitGlobals
    /\ GENAI_CLIENT = None
    /\ response_stream = <<>>

\* Simple jobs started with or without a client, without an id or under an
\* id reserved before (with no client stored) or used before.
NextNoClient ==
    \/ ReserveNextJobId("Code", None) /\ UNCHANGED session
    \/ \E client \in {None, "client"}, callbacks \in CallbackSet,
          job_id \in {0} \cup JobIds :
          /\ StartAsyncJob(client, MaxChunks, callbacks, job_id, "Unknown",
                           "simple")
          /\ UNCHANGED session
    \/ ProcessQueueBegin /\ UNCHANGED <<poll, session>>
    \/ ProcessQueueMessage /\ UNCHANGED <<poll, session>>
    \/ ProcessQueueEnd /\ UNCHANGED <<poll, session>>
    \/ \E w \in WorkerIds : WorkerGenerate(w) /\ UNCHANGED session
    \/ \E w \in WorkerIds : WorkerNextChunk(w) /\ UNCHANGED session
    \/ \E w \in WorkerIds : WorkerPut(w) /\ UNCHANGED session

SpecNoClient == InitNoClient /\ [][NextNoClient]_vars

\* Worker w was started with no client: none was passed, none was stored for
\* its id and get_client() returned None.
NoClient(w) == workers[w].mode = "simple" /\ workers[w].client = None

\* The worker of a job started with no client puts nothing but one 'error'
\* and returns, and the job stays registered until that message is taken.
NoClientWorker ==
    \A w \in WorkerIds :
        NoClient(w) =>
            /\ workers[w].pc \in {"start", "done"}
            /\ workers[w].pc = "start" => pushed[w] = <<>>
            /\ workers[w].pc = "done" =>
                  pushed[w] = <<[msg_type |-> "error", data |-> "exc"]>>
            /\ ( SingleJob(w) /\ delivered[w] = <<>> ) =>
                  /\ workers[w].job_id \in DOMAIN ACTIVE_JOBS
                  /\ ACTIVE_JOBS[workers[w].job_id].reg = w

\* The iteration that takes the 'error' of such a worker calls on_error of
\* the record its job was started with and, when the hook returns, leaves
\* the job out of _ACTIVE_JOBS.
NoClientDone ==
    ( /\ Dequeues
      /\ NoClient(Taken.w)
      /\ TakenCallbacks.reg = Taken.w
      /\ "on_error" \in TakenCallbacks.keys )
    => /\ Taken.msg_type = "error"
       /\ delivered'[Taken.w] =
             <<[msg_type |-> "error", data |-> "exc", hook |-> "on_error",
                reg |-> Taken.w]>>
       /\ "on_error" \notin TakenCallbacks.raises =>
             Taken.job_id \notin DOMAIN ACTIVE_JOBS'

SeqsUpTo(S, n) == UNION {[1..k -> S] : k \in 0..n}

\* The parts a chunk can carry: with or without a thought signature, text
\* and thought marker, or with attributes that cannot be read.
Parts ==
    {Part(sig, hasText, thought, FALSE) : sig, hasText, thought \in BOOLEAN}
    \cup {Part(FALSE, FALSE, FALSE, TRUE)}

\* The chunks a stream can yield: with an empty candidates list, with no
\* candidates attribute and a text attribute that is missing, empty or not,
\* or with a candidate of up to MaxParts parts.
Chunks ==
    {Chunk("empty", <<>>, "absent")}
    \cup {Chunk("absent", <<>>, text) : text \in {"absent", "empty", "present"}}
    \cup {Chunk("present", parts, "absent") : parts \in SeqsUpTo(Parts, MaxParts)}

\* A stream of one to MaxLen chunks is handed to _handle_response_stream.
InitStream ==
    /\ InitGlobals
    /\ GENAI_CLIENT = "default"
    /\ response_stream \in SeqsUpTo(Chunks, MaxLen) \ {<<>>}

\* One iteration of "for chunk in response_stream" (lines 419-444) for job 1:
\* the messages of the chunk are put on _JOB_QUEUE.
HandleResponseStream ==
    /\ stream_pos < Len(response_stream)
    /\ LET n == stream_pos + 1
           msgs == HandleChunk(response_stream[n], 0, n)
       IN  /\ JOB_QUEUE' = JOB_QUEUE \o
                 [i \in 1..Len(msgs) |->
                     Message(1, msgs[i].msg_type, msgs[i].data, 0)]
           /\ stream_pos' = n
    /\ UNCHANGED <<registry, GENAI_CLIENT, workers, pollState, histories, poll,
                   session, autocompleteVars, response_stream>>

NextStream == HandleResponseStream

SpecStream == InitStream /\ [][NextStream]_vars

\* The text fragments of a chunk: the parts of its first candidate, or the
\* text of a chunk that has no candidates attribute but a text.
Fragments(chunk) ==
    IF chunk.candidates = "present" THEN chunk.parts
    ELSE IF chunk.candidates = "absent" /\ chunk.text # "absent"
    THEN <<Part(FALSE, chunk.text = "present", FALSE, FALSE)>>
    ELSE <<>>

\* The messages the claim gives the fragments of the n-th chunk, from
\* fragment k on: one per fragment with non-empty text and no thought
\* signature, 'thought' or 'chunk' by the marker; a malformed chunk is
\* skipped from the fragment that cannot be read.
RECURSIVE Classified(_, _, _, _)
Classified(frags, n, k, parts) ==
    IF k > Len(frags) \/ frags[k].malformed THEN <<>>
    ELSE ( IF frags[k].has_text /\ ~frags[k].thought_signature
           THEN <<Message(1, IF frags[k].thought THEN "thought" ELSE "chunk",
                          Text(0, n, IF parts THEN k ELSE 0), 0)>>
           ELSE <<>> )
         \o Classified(frags, n, k + 1, parts)

RECURSIVE ClassifiedUpTo(_)
ClassifiedUpTo(n) ==
    IF n = 0 THEN <<>>
    ELSE ClassifiedUpTo(n - 1)
         \o Classified(Fragments(response_stream[n]), n, 1,
                       response_stream[n].candidates = "present")

\* C25: for each response chunk _handle_response_stream pushes exactly one
\* message per text fragment with non-empty text, in fragment order, of kind
\* 'thought' when the fragment's thought marker is set and 'chunk'
\* otherwise; chunks with no candidates, fragments with empty text and
\* fragments with a thought signature push nothing, and a malformed chunk is
\* skipped without ending the stream.
C25_FragmentClassification == JOB_QUEUE = ClassifiedUpTo(stream_pos)

\* ------------------------------------------- the chat session specification
\* The control thread is inside chat(), between line 30 and line 31.
InChat == Len(asked) > chat_session.counter

\* chat(prompt), lines 28-30, for a prompt that is not empty: the prompt is
\* stripped and written to chat_session. prompt is "text", or "blank" for a
\* prompt that strips to the empty string.
ChatPrompt(prompt) ==
    /\ ctl = "idle"
    /\ ~InChat
    /\ Len(asked) < MaxPrompts
    /\ asked' = Append(asked, prompt)
    /\ chat_session' =
          [chat_session EXCEPT
              !.prompt = IF prompt = "blank" THEN 0 ELSE Len(asked) + 1]
    /\ UNCHANGED <<JOB_QUEUE, registry, GENAI_CLIENT, workers, pollState,
                   histories, poll, sent, calls, apart>>

\* A chat() that starts a job whether or not one is running.
NeverRunning(cs) == FALSE

\* chat.py, line 81: the test that leaves the new prompt to the running job.
AlreadyRunning(cs) == cs.running

\* chat(prompt), lines 31-138: the counter is bumped; chat() returns when the
\* stripped prompt is empty (line 64), when the job is running (line 81) or
\* when there is no client (line 87), else it creates the session, sets
\* running and starts the persistent job with its step function.
ChatStart ==
    /\ ctl = "idle"
    /\ InChat
    /\ LET bumped == [chat_session EXCEPT !.counter = @ + 1] IN
       IF \/ bumped.prompt = 0
          \/ AlreadyRunning(bumped)
          \/ GENAI_CLIENT = None
       THEN /\ chat_session' = bumped
            /\ UNCHANGED <<JOB_QUEUE, registry, GENAI_CLIENT, workers,
                           pollState, histories, poll, apart>>
       ELSE /\ chat_session' = [bumped EXCEPT !.session = "session",
                                              !.running = TRUE]
            /\ StartAsyncJob(GENAI_CLIENT, MaxChunks, ChatHooks, 0,
                             "Persistent Vimini Chat", "step")
    /\ UNCHANGED <<asked, sent, calls>>

\* chat.py, lines 97-107: on_finish and on_error clear the session and the
\* running flag; on_chunk writes to the buffer only.
ChatCallbacks(cs, called) ==
    IF called \in {"on_error", "on_finish"}
    THEN [cs EXCEPT !.session = None, !.running = FALSE]
    ELSE cs

\* An iteration of process_queue with the hooks of chat.py.
ChatProcessQueueMessage ==
    /\ ProcessQueueMessage
    /\ chat_session' =
          ChatCallbacks(chat_session,
                        Disposition(QueueGet(JOB_QUEUE)[1],
                                    ActiveJobsGet(QueueGet(JOB_QUEUE)[1].job_id)))
    /\ UNCHANGED <<poll, asked, sent, calls>>

\* chat.py, lines 110-125: target(prev).
Target(cs, prev) ==
    IF cs.running
    THEN IF cs.counter > prev
         THEN IF cs.session = None
              THEN [next_count |-> 0, response |-> "Invalid session"]
              ELSE IF cs.prompt = 0
              THEN [next_count |-> 0, response |-> "Invalid prompt"]
              ELSE [next_count |-> cs.counter, response |-> "stream"]
         ELSE [next_count |-> cs.counter, response |-> None]
    ELSE [next_count |-> 0, response |-> "Session not running"]

\* The worker of the chat job calls target(count) (util.py, lines 451-457);
\* when target returns a stream it has passed chat_session's prompt to
\* send_message_stream (chat.py, line 122).
ChatTarget(w) ==
    /\ workers[w].mode = "step"
    /\ workers[w].pc = "start"
    /\ LET ret == Target(chat_session, workers[w].count) IN
       /\ TargetReturns(w, ret)
       /\ sent' = IF ret.response = "stream"
                  THEN Append(sent, chat_session.prompt) ELSE sent
    /\ WorkerFrame
    /\ UNCHANGED <<chat_session, asked, calls>>

\* chat() calls with a prompt, the timer's process_queue calls between them
\* and the workers of the chat jobs.
NextSession ==
    \/ \E prompt \in {"text", "blank"} : ChatPrompt(prompt)
    \/ ChatStart
    \/ ~InChat /\ ProcessQueueBegin /\ UNCHANGED <<poll, session>>
    \/ ChatProcessQueueMessage
    \/ ProcessQueueEnd /\ UNCHANGED <<poll, session>>
    \/ \E w \in WorkerIds : ChatTarget(w)
    \/ \E w \in WorkerIds : WorkerNextChunk(w) /\ UNCHANGED session
    \/ \E w \in WorkerIds : WorkerPut(w) /\ UNCHANGED session
    \/ \E w \in WorkerIds : WorkerAfterBreak(w) /\ UNCHANGED session

SpecSession == Init /\ [][NextSession]_vars

\* How many times the prompt of the k-th chat() call was sent.
Times(k) == Cardinality({i \in DOMAIN sent : sent[i] = k})

\* The loop of the step mode is running in worker w.
LoopAlive(w) ==
    workers[w].mode = "step" /\ workers[w].pc \in {"start", "stream"}

\* Nothing is left to do for the prompts passed so far: chat() has returned,
\* the queue is drained, and either a worker has seen the last counter and
\* waits for the next prompt, or no job is registered and no worker runs.
Settled ==
    /\ ctl = "idle"
    /\ ~InChat
    /\ JOB_QUEUE = <<>>
    /\ \/ \E w \in WorkerIds :
             /\ LoopAlive(w)
             /\ workers[w].pc = "start"
             /\ workers[w].count = chat_session.counter
       \/ /\ DOMAIN ACTIVE_JOBS = {}
          /\ \A w \in WorkerIds : workers[w].pc = "done"

\* C26: every non-empty prompt passed to chat() is sent to the chat session
\* exactly once, by the job chat() starts or by the running worker's step
\* function, whatever the interleaving of the chat() calls with the worker:
\* no prompt is sent twice, and once nothing is left to do every prompt
\* that does not strip to the empty string has been sent.
C26_PromptDelivery ==
    /\ \A k \in 1..Len(asked) : Times(k) <= 1
    /\ Settled => \A k \in 1..Len(asked) : asked[k] = "text" => Times(k) = 1

\* The registered jobs named "Persistent Vimini Chat".
ChatJobs ==
    {j \in DOMAIN ACTIVE_JOBS :
        DictGet(JOB_NAMES, j, None) = "Persistent Vimini Chat"}

\* C30: after any chat() and process_queue calls at most one "Persistent
\* Vimini Chat" job is registered, at most one chat worker loop is alive,
\* and chat_session['running'] is true whenever such a job is registered.
C30_SingleChatJob ==
    /\ Cardinality(ChatJobs) <= 1
    /\ Cardinality({w \in WorkerIds : LoopAlive(w)}) <= 1
    /\ ChatJobs # {} => chat_session.running

\* A second chat job runs after the first one ended with "Invalid prompt";
\* the first worker has left its loop and has still to put 'finish'.
C30_Witness ==
    /\ Len(workers) = 2
    /\ workers[1].pc = "break"
    /\ LoopAlive(2)
    /\ ChatJobs = {2}
    /\ chat_session.running

\* ------------------------------------------------------- autocomplete.py
\* What autocomplete.py leaves alone: the job manager, the chat session and
\* the response stream.
AutocompleteFrame ==
    UNCHANGED <<JOB_QUEUE, registry, GENAI_CLIENT, workers, pollState,
                histories, poll, session, streamVars>>

\* A thread running _autocomplete_worker(job_id, ...). pc: "check" (before
\* lines 92-94), "generate" (before the request, lines 96-123), "recheck"
\* (before lines 125-127), "put" (after the lock is released, before lines
\* 129-133), "done" (returned).
AutocompleteWorker(job_id) == [job_id |-> job_id, pc |-> "check"]

AutocompleteWorkerIds == DOMAIN autocomplete_workers

\* autocomplete(), lines 155-170: a fresh id (uuid4) becomes the current
\* one under the lock and a thread is started for it.
Autocomplete ==
    /\ Len(autocomplete_workers) < MaxCompletions
    /\ LET job_id == Len(autocomplete_workers) + 1 IN
       /\ current_autocomplete_job_id' = job_id
       /\ autocomplete_workers' =
             Append(autocomplete_workers, AutocompleteWorker(job_id))
    /\ UNCHANGED autocomplete_queue
    /\ AutocompleteFrame

\* cancel_autocomplete(), lines 21-28, under the lock: no current id, and
\* the queue is emptied.
CancelAutocomplete ==
    /\ current_autocomplete_job_id' = 0
    /\ autocomplete_queue' = <<>>
    /\ UNCHANGED autocomplete_workers
    /\ AutocompleteFrame

\* process_autocomplete_queue(), lines 71-77: one item is taken; a 'popup'
\* is shown, an 'error' is echoed.
ProcessAutocompleteQueue ==
    /\ autocomplete_queue # <<>>
    /\ autocomplete_queue' = Tail(autocomplete_queue)
    /\ UNCHANGED <<current_autocomplete_job_id, autocomplete_workers>>
    /\ AutocompleteFrame

\* The worker goes to pc, putting the items of put on the queue.
AutocompleteStep(w, pc, put) ==
    /\ autocomplete_workers' = [autocomplete_workers EXCEPT ![w].pc = pc]
    /\ autocomplete_queue' = autocomplete_queue \o put
    /\ UNCHANGED current_autocomplete_job_id
    /\ AutocompleteFrame

\* Lines 92-94 and 125-127, under the lock: the worker returns when its id
\* is no longer the current one.
AutocompleteWorkerCheck(w) ==
    /\ autocomplete_workers[w].pc \in {"check", "recheck"}
    /\ IF current_autocomplete_job_id # autocomplete_workers[w].job_id
       THEN AutocompleteStep(w, "done", <<>>)
       ELSE AutocompleteStep(w, IF autocomplete_workers[w].pc = "check"
                                THEN "generate" ELSE "put", <<>>)

\* The item the except clause of lines 135-137 puts.
AutocompleteError(w) ==
    <<[task_type |-> "error", job_id |-> autocomplete_workers[w].job_id]>>

\* Lines 96-123: the worker returns when there is no client or no context,
\* else the request returns a response or raises.
AutocompleteWorkerGenerate(w) ==
    /\ autocomplete_workers[w].pc = "generate"
    /\ \/ AutocompleteStep(w, "done", <<>>)
       \/ AutocompleteStep(w, "recheck", <<>>)
       \/ AutocompleteStep(w, "done", AutocompleteError(w))

\* Lines 129-133, outside the lock: an empty suggestion is dropped, else the
\* 'popup' is put on the queue; response.text may raise.
AutocompleteWorkerPut(w) ==
    /\ autocomplete_workers[w].pc = "put"
    /\ \/ AutocompleteStep(w, "done", <<>>)
       \/ AutocompleteStep(w, "done",
             <<[task_type |-> "popup",
                job_id |-> autocomplete_workers[w].job_id]>>)
       \/ AutocompleteStep(w, "done", AutocompleteError(w))

NextAutocomplete ==
    \/ Autocomplete
    \/ CancelAutocomplete
    \/ ProcessAutocompleteQueue
    \/ \E w \in AutocompleteWorkerIds : AutocompleteWorkerCheck(w)
    \/ \E w \in AutocompleteWorkerIds : AutocompleteWorkerGenerate(w)
    \/ \E w \in AutocompleteWorkerIds : AutocompleteWorkerPut(w)

SpecAutocomplete == Init /\ [][NextAutocomplete]_vars

\* C21: under every interleaving of _autocomplete_worker with
\* cancel_autocomplete and autocomplete, no 'popup' is put on
\* _autocomplete_queue for a job that was cancelled or superseded before the
\* put: the job of a 'popup' that enters the queue is the current one.
C21_NoStalePopup ==
    [][ \A i \in DOMAIN autocomplete_queue' :
           ( /\ i > Len(autocomplete_queue)
             /\ autocomplete_queue'[i].task_type = "popup" )
           => autocomplete_queue'[i].job_id = current_autocomplete_job_id
      ]_vars

====
